---- MODULE Spec2Model ----
(***************************************************************************)
(* NeuroVox streaming transcription pipeline.                              *)
(*                                                                         *)
(* Server side: the per-connection handler of backend/src/websocket.ts     *)
(* (ffmpeg transcoder, PCM accumulation buffer, silence timer, latency     *)
(* check, triggerTranscription).                                           *)
(* Client side: StreamingTranscriptionService.ts (chunk queue, socket,     *)
(* drain loop, finishProcessing, abort).                                   *)
(***************************************************************************)
EXTENDS Integers, Sequences, FiniteSets, TLC

(***************************************************************************)
(* Program constants                                                       *)
(***************************************************************************)
SILENCE_MS == 500

LATENCY_MS == 3000

\* granularity of the model's clock
TICK_MS == SILENCE_MS \div 5

\* an idle period longer than the latency ceiling
IDLE_WAIT_MS == LATENCY_MS + TICK_MS

(***************************************************************************)
(* Bounds of the model                                                     *)
(***************************************************************************)
MaxFrames == 2

MaxTimeTicks == 7

MaxControl == 1

MaxStreamFrames == 13

MaxStreamTicks == 13

MaxChunks == 2

MaxChunkSize == 2

MaxQueueSize == 2

MemoryLimit == 3

MaxSockets == 2

MaxLoops == 2

MaxQueueCalls == 5

MaxSegments == 1

MaxCompiled == 3

MaxCompileChunks == 1

MaxRecorded == 3

MaxPeerFrames == 2

MaxPeerTicks == 2

\* finishProcessing polls the queue at most this many times
MAX_ATTEMPTS == 100

\* transcriptionTimer = null
NoTimer == -1

\* this.socket = null
NoSocket == 0

\* what the client tells apart in a message from the server
MessageTypes == {"transcription", "error", "invalid"}

ControlTypes == {"reset", "flush", "other", "invalid"}

VARIABLES
    \* ---- server connection state (websocket.ts:20-27)
    pcmBuffer,              \* Buffer[]: PCM chunks emitted by ffmpeg, not yet snapshotted
    transcriptionTimer,     \* handle of the last setTimeout (its deadline), or NoTimer
    isTranscribing,         \* in-flight flag
    lastTranscriptionTime,  \* Date.now() of connection start / last finished pass
    command,                \* ffmpeg command created (inputStream exists iff command)
    ffmpegFailed,           \* the ffmpeg process of command has exited with an error
    \* ---- server runtime
    now,                    \* Date.now() in ms
    timerQueue,             \* deadlines of the timeouts pending in the event loop
    ffInput,                \* frames written to inputStream, not yet emitted as PCM
    inflight,               \* sequence of running transcribeFloat32 calls (their input)
    sent,                   \* messages sent on ws, in order
    closed,                 \* the close event has been handled
    \* ---- server observation (history)
    nextFrame,              \* id of the next binary frame
    lastFrameTime,          \* arrival time of the last binary frame (connection start if none)
    prevFrameTime,          \* arrival time of the binary frame before the last one
    controlCount,           \* text frames received
    triggerCount,           \* calls of triggerTranscription, by origin
    silenceTriggers,        \* silence-timer expiries since the last binary frame
    inferences,             \* every input handed to transcribeFloat32, in order
    discarded,              \* PCM chunks dropped by reset or close
    lastEvent,              \* the handler that ran last
    receivedBeforeReset,    \* frames received before a reset and not snapshotted by then
    lastResult,             \* if the last handler ended a transcribeFloat32 call: how, its text
    \* ---- client: ChunkQueue
    chunkQueue,             \* [items (oldest first, each [id, size]), count, currentMemory, paused]
    queueEvent,             \* the last enqueue/dequeue/clear call with its result and warning
    \* ---- client: StreamingTranscriptionService
    isProcessing,
    processedChunks,        \* ids recorded as sent
    socket,                 \* this.socket: a socket id or NoSocket
    isSocketOpen,
    sockState,              \* readyState of every WebSocket created so far
    promise,                \* state of the connectSocket promise made with each socket
    loops,                  \* the processQueueLoop activations, each at an await or off
    finish,                 \* the finishProcessing call: where it is, its attempts
    segments,               \* resultCompiler: the transcripts added, in order
    segmentIndex,           \* resultCompiler: metadata.index of each segment added
    rendered,               \* the string returned by the last render of the unchanged log
    \* ---- client observation (history)
    wire,                   \* what was transmitted, in order: [sock, kind, id]
    nextChunk,              \* id of the next chunk handed to addChunk / enqueue
    queuedAtFinish,         \* ids in the queue when finishProcessing was called
    aborted,                \* abort() calls since processing was last started (up to 2)
    startCall,              \* the latest start() call: its promise, the socket it awaits
    \* ---- TimerModal
    chunkIndex,             \* this.chunkIndex
    suspended,              \* processAudioChunk calls waiting at `await addChunk`
    handed,                 \* the metadata [id, index] handed to addChunk, in order
    \* ---- server: the other connection
    conn,                   \* the connection whose closure variables are the ones above
    parked                  \* the closure variables and runtime of the other connection

queueVars == << chunkQueue, queueEvent >>

sessionVars ==
    << isProcessing, processedChunks, socket, isSocketOpen, sockState, promise, loops,
       finish, segments, segmentIndex, rendered, wire, queuedAtFinish, aborted, startCall >>

clientVars == << queueVars, sessionVars, nextChunk >>

serverVars ==
    << pcmBuffer, transcriptionTimer, isTranscribing, lastTranscriptionTime, command,
       ffmpegFailed, now, timerQueue, ffInput, inflight, sent, closed,
       nextFrame, lastFrameTime, prevFrameTime, controlCount, triggerCount, silenceTriggers,
       inferences, discarded, lastEvent, lastResult, receivedBeforeReset >>

modalVars == << chunkIndex, suspended, handed >>

peerVars == << conn, parked >>

\* everything but the client session, everything but the server connection
outsideClient == << serverVars, modalVars, peerVars >>

outsideServer == << clientVars, modalVars, peerVars >>

vars == << serverVars, clientVars, modalVars, peerVars >>

(***************************************************************************)
(* Sequence helpers                                                        *)
(***************************************************************************)
RECURSIVE Concat(_)
Concat(ss) == IF ss = << >> THEN << >> ELSE Head(ss) \o Concat(Tail(ss))

Range(s) == { s[i] : i \in 1..Len(s) }

Count(s, x) == Cardinality({ i \in 1..Len(s) : s[i] = x })

RemoveAt(s, i) == [ j \in 1..(Len(s) - 1) |-> IF j < i THEN s[j] ELSE s[j + 1] ]

(***************************************************************************)
(* Server: transcoding and sample conversion                               *)
(***************************************************************************)
\* ffmpeg decodes a frame to s16le PCM; one 'data' chunk per frame
Transcode(f) == << [pcm |-> f] >>

\* Int16 samples scaled to Float32, order and length kept
ToFloat32(samples) == [ i \in 1..Len(samples) |-> [f32 |-> samples[i].pcm] ]

\* texts transcribeFloat32 may resolve to, as sequences of characters
Texts == { << >>, << " " >>, << "a" >>, << " ", "a", " " >> }

RECURSIVE TrimStart(_)
TrimStart(t) == IF t # << >> /\ Head(t) = " " THEN TrimStart(Tail(t)) ELSE t

RECURSIVE TrimEnd(_)
TrimEnd(t) ==
    IF t # << >> /\ t[Len(t)] = " " THEN TrimEnd(SubSeq(t, 1, Len(t) - 1)) ELSE t

\* text.trim()
Trim(t) == TrimEnd(TrimStart(t))

NoResult == [ok |-> TRUE, text |-> << >>]

TriggerKinds == {"silence", "latency", "flush"}

triggerVars == << pcmBuffer, isTranscribing, inflight, inferences >>

\* triggerTranscription with the in-flight guard left out
TriggerTranscriptionUnguarded ==
    IF Len(pcmBuffer) = 0
    THEN UNCHANGED triggerVars
    ELSE /\ isTranscribing' = TRUE
         /\ inflight' = Append(inflight, ToFloat32(Concat(pcmBuffer)))
         /\ inferences' = Append(inferences, ToFloat32(Concat(pcmBuffer)))
         /\ pcmBuffer' = << >>

\* triggerTranscription that snapshots without clearing the buffer
TriggerTranscriptionKeepBuffer ==
    IF Len(pcmBuffer) = 0 \/ isTranscribing
    THEN UNCHANGED triggerVars
    ELSE /\ isTranscribing' = TRUE
         /\ inflight' = Append(inflight, ToFloat32(Concat(pcmBuffer)))
         /\ inferences' = Append(inferences, ToFloat32(Concat(pcmBuffer)))
         /\ pcmBuffer' = pcmBuffer

\* triggerTranscription with the empty-buffer guard left out
TriggerTranscriptionOnEmpty ==
    IF isTranscribing
    THEN UNCHANGED triggerVars
    ELSE /\ isTranscribing' = TRUE
         /\ inflight' = Append(inflight, ToFloat32(Concat(pcmBuffer)))
         /\ inferences' = Append(inferences, ToFloat32(Concat(pcmBuffer)))
         /\ pcmBuffer' = << >>

\* triggerTranscription up to its await: guards, snapshot, clear, start of inference
TriggerTranscription ==
    IF Len(pcmBuffer) = 0
    THEN UNCHANGED triggerVars
    ELSE IF isTranscribing
    THEN UNCHANGED triggerVars
    ELSE /\ isTranscribing' = TRUE
         /\ inflight' = Append(inflight, ToFloat32(Concat(pcmBuffer)))
         /\ inferences' = Append(inferences, ToFloat32(Concat(pcmBuffer)))
         /\ pcmBuffer' = << >>

CountTrigger(kind) ==
    triggerCount' = [triggerCount EXCEPT ![kind] = @ + 1]

\* setTimeout without the preceding clearTimeout
RearmSilenceTimerNoClear ==
    /\ timerQueue' = timerQueue \cup {now + SILENCE_MS}
    /\ transcriptionTimer' = now + SILENCE_MS

\* if (transcriptionTimer) clearTimeout(transcriptionTimer); transcriptionTimer = setTimeout(.., 500)
RearmSilenceTimer ==
    /\ timerQueue' = (timerQueue \ {transcriptionTimer}) \cup {now + SILENCE_MS}
    /\ transcriptionTimer' = now + SILENCE_MS

\* a latency check that never passes
LatencyCheckNever == FALSE

\* now - lastTranscriptionTime > 3000 && !isTranscribing
LatencyCheck == now - lastTranscriptionTime > LATENCY_MS /\ ~isTranscribing

LatencyBoundExceeded == now - lastTranscriptionTime > LATENCY_MS

(***************************************************************************)
(* Server: handlers                                                        *)
(***************************************************************************)
\* if (!command) startFfmpeg(): a command that exists is never replaced
StartFfmpeg ==
    IF command
    THEN UNCHANGED << command, ffmpegFailed >>
    ELSE command' = TRUE /\ ffmpegFailed' = FALSE

\* ws.on('message') with isBinary
BinaryFrame ==
    /\ ~closed
    /\ StartFfmpeg
    /\ ffInput' = Append(ffInput, nextFrame)
    /\ RearmSilenceTimer
    /\ IF LatencyCheck
       THEN TriggerTranscription /\ CountTrigger("latency")
       ELSE UNCHANGED << triggerVars, triggerCount >>
    /\ nextFrame' = nextFrame + 1
    /\ lastFrameTime' = now
    /\ prevFrameTime' = lastFrameTime
    /\ silenceTriggers' = 0
    /\ lastEvent' = IF LatencyBoundExceeded THEN "latency" ELSE "frame"
    /\ lastResult' = NoResult
    /\ UNCHANGED << receivedBeforeReset, lastTranscriptionTime, now, sent, closed,
                    controlCount, discarded >>

\* ffStream.on('data'): ffmpeg emits the PCM of the oldest frame it holds
FfmpegData ==
    /\ ffInput # << >>
    /\ ~ffmpegFailed
    /\ pcmBuffer' = Append(pcmBuffer, Transcode(Head(ffInput)))
    /\ ffInput' = Tail(ffInput)
    /\ lastEvent' = "data"
    /\ lastResult' = NoResult
    /\ UNCHANGED << receivedBeforeReset, ffmpegFailed, transcriptionTimer, isTranscribing,
                    lastTranscriptionTime, command, now, timerQueue, inflight, sent,
                    closed, nextFrame, lastFrameTime, prevFrameTime, controlCount,
                    triggerCount, silenceTriggers, inferences, discarded >>

\* command.on('error'): the ffmpeg process failed; the handler only logs
FfmpegError ==
    /\ command
    /\ ~ffmpegFailed
    /\ ffmpegFailed' = TRUE
    /\ lastEvent' = "fferror"
    /\ lastResult' = NoResult
    /\ UNCHANGED << receivedBeforeReset, pcmBuffer, transcriptionTimer, isTranscribing,
                    lastTranscriptionTime, command, now, timerQueue, ffInput, inflight,
                    sent, closed, nextFrame, lastFrameTime, prevFrameTime, controlCount,
                    triggerCount, silenceTriggers, inferences, discarded >>

\* the setTimeout callback of the silence debounce
SilenceTimerFires ==
    /\ \E d \in timerQueue :
          /\ d <= now
          /\ timerQueue' = timerQueue \ {d}
    /\ TriggerTranscription
    /\ CountTrigger("silence")
    /\ silenceTriggers' = silenceTriggers + 1
    /\ lastEvent' = "silence"
    /\ lastResult' = NoResult
    /\ UNCHANGED << receivedBeforeReset, ffmpegFailed, transcriptionTimer,
                    lastTranscriptionTime, command, now, ffInput, sent, closed, nextFrame,
                    lastFrameTime, prevFrameTime, controlCount, discarded >>

\* a flush that leaves the trigger to the timers
FlushTriggerDeferred == UNCHANGED triggerVars

\* the flush branch: triggerTranscription()
FlushTrigger == TriggerTranscription

\* frames of which some PCM has been handed to transcribeFloat32
Snapshotted == { c.f32 : c \in Range(Concat(inferences)) }

\* a control branch that treats a frame it does not understand as a reset
TextFrameResetsOnUnknown(type) ==
    /\ ~closed
    /\ controlCount' = controlCount + 1
    /\ CASE type = "flush" ->
              /\ FlushTrigger
              /\ CountTrigger("flush")
              /\ lastEvent' = "flush"
              /\ UNCHANGED << discarded, receivedBeforeReset >>
         [] OTHER ->
              /\ pcmBuffer' = << >>
              /\ discarded' = discarded \o Concat(pcmBuffer)
              /\ lastEvent' = IF type = "reset" THEN "reset" ELSE "ignored"
              /\ receivedBeforeReset' =
                    receivedBeforeReset \cup (1..(nextFrame - 1) \ Snapshotted)
              /\ UNCHANGED << isTranscribing, inflight, inferences, triggerCount >>
    /\ lastResult' = NoResult
    /\ UNCHANGED << ffmpegFailed, transcriptionTimer, lastTranscriptionTime, command, now,
                    timerQueue, ffInput, sent, closed, nextFrame, lastFrameTime,
                    prevFrameTime, silenceTriggers >>

\* ws.on('message') with a text frame
TextFrame(type) ==
    /\ ~closed
    /\ controlCount' = controlCount + 1
    /\ CASE type = "reset" ->
              /\ pcmBuffer' = << >>
              /\ discarded' = discarded \o Concat(pcmBuffer)
              /\ lastEvent' = "reset"
              /\ receivedBeforeReset' =
                    receivedBeforeReset \cup (1..(nextFrame - 1) \ Snapshotted)
              /\ UNCHANGED << isTranscribing, inflight, inferences, triggerCount >>
         [] type = "flush" ->
              /\ FlushTrigger
              /\ CountTrigger("flush")
              /\ lastEvent' = "flush"
              /\ UNCHANGED << discarded, receivedBeforeReset >>
         [] OTHER ->
              /\ lastEvent' = "ignored"
              /\ UNCHANGED << triggerVars, triggerCount, discarded, receivedBeforeReset >>
    /\ lastResult' = NoResult
    /\ UNCHANGED << ffmpegFailed, transcriptionTimer, lastTranscriptionTime, command, now,
                    timerQueue, ffInput, sent, closed, nextFrame, lastFrameTime,
                    prevFrameTime, silenceTriggers >>

\* ws.send: a message sent after the close event is dropped by the socket
WsSend(msg) == sent' = IF closed THEN sent ELSE Append(sent, msg)

\* the reply to a transcript that is sent whatever its text
SendsTranscriptionAlways(text) == TRUE

\* text && text.trim()
SendsTranscription(text) == text # << >> /\ Trim(text) # << >>

\* transcribeFloat32 resolves to text: the rest of the try block, then finally
InferenceDone(i, text) ==
    /\ i \in 1..Len(inflight)
    /\ IF SendsTranscription(text)
       THEN WsSend([type |-> "transcription", text |-> Trim(text)])
       ELSE UNCHANGED sent
    /\ inflight' = RemoveAt(inflight, i)
    /\ isTranscribing' = FALSE
    /\ lastTranscriptionTime' = now
    /\ lastEvent' = "done"
    /\ lastResult' = [ok |-> TRUE, text |-> text]
    /\ UNCHANGED << receivedBeforeReset, ffmpegFailed, pcmBuffer, transcriptionTimer,
                    command, now, timerQueue, ffInput, closed, nextFrame, lastFrameTime,
                    prevFrameTime, controlCount, triggerCount, silenceTriggers, inferences,
                    discarded >>

\* the sample conversion or transcribeFloat32 throws: catch, then finally
InferenceFail(i) ==
    /\ i \in 1..Len(inflight)
    /\ WsSend([type |-> "error", text |-> << >>])
    /\ inflight' = RemoveAt(inflight, i)
    /\ isTranscribing' = FALSE
    /\ lastTranscriptionTime' = now
    /\ lastEvent' = "failed"
    /\ lastResult' = [ok |-> FALSE, text |-> << >>]
    /\ UNCHANGED << receivedBeforeReset, ffmpegFailed, pcmBuffer, transcriptionTimer,
                    command, now, timerQueue, ffInput, closed, nextFrame, lastFrameTime,
                    prevFrameTime, controlCount, triggerCount, silenceTriggers, inferences,
                    discarded >>

\* a close handler that leaves a pending silence timer to expire
CloseKeepsTimer ==
    /\ ~closed
    /\ closed' = TRUE
    /\ timerQueue' = timerQueue
    /\ pcmBuffer' = << >>
    /\ discarded' = discarded \o Concat(pcmBuffer)
    /\ command' = FALSE
    /\ lastEvent' = "close"
    /\ lastResult' = NoResult
    /\ UNCHANGED << receivedBeforeReset, ffmpegFailed, transcriptionTimer, isTranscribing,
                    lastTranscriptionTime, now, ffInput, inflight, sent, nextFrame,
                    lastFrameTime, prevFrameTime, controlCount, triggerCount,
                    silenceTriggers, inferences >>

\* ws.on('close')
Close ==
    /\ ~closed
    /\ closed' = TRUE
    /\ timerQueue' = timerQueue \ {transcriptionTimer}
    /\ pcmBuffer' = << >>
    /\ discarded' = discarded \o Concat(pcmBuffer)
    /\ command' = FALSE
    /\ lastEvent' = "close"
    /\ lastResult' = NoResult
    /\ UNCHANGED << receivedBeforeReset, ffmpegFailed, transcriptionTimer, isTranscribing,
                    lastTranscriptionTime, now, ffInput, inflight, sent, nextFrame,
                    lastFrameTime, prevFrameTime, controlCount, triggerCount,
                    silenceTriggers, inferences >>

\* time passes; a due timeout runs before the clock moves past its deadline
Tick(dt) ==
    /\ \A d \in timerQueue : now + dt <= d
    /\ now' = now + dt
    /\ lastEvent' = "tick"
    /\ lastResult' = NoResult
    /\ UNCHANGED << receivedBeforeReset, ffmpegFailed, pcmBuffer, transcriptionTimer,
                    isTranscribing, lastTranscriptionTime, command, timerQueue, ffInput,
                    inflight, sent, closed, nextFrame, lastFrameTime, prevFrameTime,
                    controlCount, triggerCount, silenceTriggers, inferences, discarded >>

(***************************************************************************)
(* Server: two connections.  wss.on('connection') runs once per            *)
(* connection and declares its state anew, so every handler is a closure   *)
(* over the variables of its own connection.  The variables above are      *)
(* those of connection conn; parked holds those of the other one.          *)
(***************************************************************************)
ConnIds == {1, 2}

\* the closure variables and runtime of the connection in scope
Connection ==
    [pcmBuffer |-> pcmBuffer,
     transcriptionTimer |-> transcriptionTimer,
     isTranscribing |-> isTranscribing,
     lastTranscriptionTime |-> lastTranscriptionTime,
     command |-> command,
     ffmpegFailed |-> ffmpegFailed,
     timerQueue |-> timerQueue,
     ffInput |-> ffInput,
     inflight |-> inflight,
     sent |-> sent,
     closed |-> closed,
     nextFrame |-> nextFrame,
     lastFrameTime |-> lastFrameTime,
     prevFrameTime |-> prevFrameTime,
     controlCount |-> controlCount,
     triggerCount |-> triggerCount,
     silenceTriggers |-> silenceTriggers,
     inferences |-> inferences,
     discarded |-> discarded,
     lastEvent |-> lastEvent,
     lastResult |-> lastResult,
     receivedBeforeReset |-> receivedBeforeReset]

\* the state of connection c
ConnectionOf(c) == IF c = conn THEN Connection ELSE parked

\* the next event belongs to the other connection: its handlers run over its
\* own closure variables
OtherConnection ==
    /\ conn' = 3 - conn
    /\ parked' = Connection
    /\ pcmBuffer' = parked.pcmBuffer
    /\ transcriptionTimer' = parked.transcriptionTimer
    /\ isTranscribing' = parked.isTranscribing
    /\ lastTranscriptionTime' = parked.lastTranscriptionTime
    /\ command' = parked.command
    /\ ffmpegFailed' = parked.ffmpegFailed
    /\ timerQueue' = parked.timerQueue
    /\ ffInput' = parked.ffInput
    /\ inflight' = parked.inflight
    /\ sent' = parked.sent
    /\ closed' = parked.closed
    /\ nextFrame' = parked.nextFrame
    /\ lastFrameTime' = parked.lastFrameTime
    /\ prevFrameTime' = parked.prevFrameTime
    /\ controlCount' = parked.controlCount
    /\ triggerCount' = parked.triggerCount
    /\ silenceTriggers' = parked.silenceTriggers
    /\ inferences' = parked.inferences
    /\ discarded' = parked.discarded
    /\ lastEvent' = parked.lastEvent
    /\ lastResult' = parked.lastResult
    /\ receivedBeforeReset' = parked.receivedBeforeReset
    /\ UNCHANGED << now, clientVars, modalVars >>

(***************************************************************************)
(* Client: ChunkQueue (bounded FIFO with memory-based backpressure)        *)
(***************************************************************************)
NoItem == [id |-> 0, size |-> 0]

NoWarning == -1

EmptyQueue == [items |-> << >>, count |-> 0, currentMemory |-> 0, paused |-> FALSE]

\* size()
Size(q) == q.count

\* getMemoryUsage()
GetMemoryUsage(q) == q.currentMemory

\* isPaused()
IsPaused(q) == q.paused

\* the post-accept totals stay within the limits
Fits(q, size) ==
    /\ Size(q) + 1 <= MaxQueueSize
    /\ q.currentMemory + size <= MemoryLimit

\* utilization percentage handed to the memory-warning callback
Utilization(q) == (q.currentMemory * 100) \div MemoryLimit

\* an enqueue that checks the totals before, not after, the accept
EnqueueOffByOne(q, id, size) ==
    IF Size(q) <= MaxQueueSize /\ q.currentMemory <= MemoryLimit
    THEN [q |-> [q EXCEPT !.items = Append(@, [id |-> id, size |-> size]),
                          !.count = @ + 1,
                          !.currentMemory = @ + size],
          ret |-> TRUE, warning |-> NoWarning]
    ELSE [q |-> [q EXCEPT !.paused = TRUE], ret |-> FALSE, warning |-> Utilization(q)]

\* an enqueue that makes room by dropping the oldest chunk
EnqueueEvicting(q, id, size) ==
    IF Fits(q, size)
    THEN [q |-> [q EXCEPT !.items = Append(@, [id |-> id, size |-> size]),
                          !.count = @ + 1,
                          !.currentMemory = @ + size],
          ret |-> TRUE, warning |-> NoWarning]
    ELSE [q |-> IF q.items = << >>
                THEN [q EXCEPT !.paused = TRUE]
                ELSE [q EXCEPT !.items = Tail(@),
                               !.count = @ - 1,
                               !.currentMemory = @ - Head(q.items).size,
                               !.paused = TRUE],
          ret |-> FALSE, warning |-> Utilization(q)]

\* an enqueue that recomputes the paused flag when it accepts a chunk
EnqueueUnpausing(q, id, size) ==
    IF Fits(q, size)
    THEN [q |-> [q EXCEPT !.items = Append(@, [id |-> id, size |-> size]),
                          !.count = @ + 1,
                          !.currentMemory = @ + size,
                          !.paused = FALSE],
          ret |-> TRUE, warning |-> NoWarning]
    ELSE [q |-> [q EXCEPT !.paused = TRUE], ret |-> FALSE, warning |-> Utilization(q)]

\* enqueue(chunk, metadata): the new queue, the return value, the warning raised
Enqueue(q, id, size) ==
    IF Fits(q, size)
    THEN [q |-> [q EXCEPT !.items = Append(@, [id |-> id, size |-> size]),
                          !.count = @ + 1,
                          !.currentMemory = @ + size],
          ret |-> TRUE, warning |-> NoWarning]
    ELSE [q |-> [q EXCEPT !.paused = TRUE], ret |-> FALSE, warning |-> Utilization(q)]

\* a dequeue that hands out the oldest chunk without updating the totals
DequeueNoAccounting(q) ==
    IF q.items = << >>
    THEN [q |-> q, item |-> NoItem]
    ELSE [q |-> [q EXCEPT !.items = Tail(@)], item |-> Head(q.items)]

\* a dequeue that leaves the paused flag as it finds it
DequeueStaysPaused(q) ==
    IF q.items = << >>
    THEN [q |-> q, item |-> NoItem]
    ELSE [q |-> [q EXCEPT !.items = Tail(@),
                          !.count = @ - 1,
                          !.currentMemory = @ - Head(q.items).size],
          item |-> Head(q.items)]

\* dequeue(): the new queue and the item removed (NoItem when empty)
Dequeue(q) ==
    IF q.items = << >>
    THEN [q |-> q, item |-> NoItem]
    ELSE LET it == Head(q.items)
             mem == q.currentMemory - it.size
             n == q.count - 1
         IN [q |-> [items |-> Tail(q.items),
                    count |-> n,
                    currentMemory |-> mem,
                    paused |-> q.paused /\ ~(n < MaxQueueSize /\ mem < MemoryLimit)],
             item |-> it]

\* a clear that drops the chunks and the byte total but not the paused flag
ClearKeepsPaused(q) ==
    [q EXCEPT !.items = << >>, !.count = 0, !.currentMemory = 0]

\* clear()
Clear(q) == EmptyQueue

(***************************************************************************)
(* ResultCompiler: the ordered log of transcript segments and its          *)
(* renderings.  A text is a sequence of characters; a rendering is the     *)
(* sequence of characters of the string returned.                          *)
(***************************************************************************)
Delimiter == "\n"

NoRender == [op |-> "none", ts |-> FALSE, out |-> << >>]

\* an addSegment that puts the newest segment first
AddSegmentFirst(segs, text) == << text >> \o segs

\* addSegment(segment): appended at the end of the log
AddSegment(segs, text) == Append(segs, text)

\* the formatted timestamp of the segment with ordering key i
Stamp(i) == << "[", ToString(i), "]" >>

RECURSIVE RenderFrom(_, _, _)
RenderFrom(segs, i, includeTimestamps) ==
    IF i > Len(segs)
    THEN << >>
    ELSE (IF i > 1 THEN << Delimiter >> ELSE << >>)
         \o (IF includeTimestamps THEN Stamp(i) ELSE << >>)
         \o segs[i]
         \o RenderFrom(segs, i + 1, includeTimestamps)

\* getPartialResult(includeTimestamps)
GetPartialResult(segs, includeTimestamps) == RenderFrom(segs, 1, includeTimestamps)

\* getFinalResult(includeTimestamps, includeMetadata): the same rendering path
GetFinalResult(segs, includeTimestamps, includeMetadata) ==
    RenderFrom(segs, 1, includeTimestamps)

\* clear()
ClearSegments(segs) == << >>

(***************************************************************************)
(* Client: StreamingTranscriptionService                                   *)
(***************************************************************************)
SocketIds == 1..MaxSockets

LoopIds == 1..MaxLoops

LoopOff == [pc |-> "off", item |-> NoItem]

FreeLoops == { l \in LoopIds : loops[l].pc = "off" }

FreeSockets == { s \in SocketIds : sockState[s] = "NONE" }

Min(S) == CHOOSE x \in S : \A y \in S : x <= y

\* this.socket && this.socket.readyState === WebSocket.OPEN
SocketIsOpen(st) == socket # NoSocket /\ st[socket] = "OPEN"

\* socket.close(): an open or connecting socket starts closing
CloseSocket(st, s) ==
    [st EXCEPT ![s] = IF @ \in {"OPEN", "CONNECTING"} THEN "CLOSING" ELSE @]

\* processQueueLoop from its while-test to its next await (or its end), for the
\* activation l, on queue q, with the flags and ready states as they are then
LoopStep(l, q, proc, open, st) ==
    IF ~(proc /\ open)
    THEN /\ loops' = [loops EXCEPT ![l] = LoopOff]
         /\ chunkQueue' = q
    ELSE LET d == Dequeue(q) IN
         /\ chunkQueue' = d.q
         /\ loops' = [loops EXCEPT ![l] =
                IF d.item = NoItem THEN [pc |-> "sleep", item |-> NoItem]
                ELSE IF SocketIsOpen(st) THEN [pc |-> "buf", item |-> d.item]
                ELSE LoopOff]

\* this.processQueueLoop(): a new activation
StartLoop(q, proc, open, st) ==
    /\ FreeLoops # {}
    /\ LoopStep(Min(FreeLoops), q, proc, open, st)

\* startProcessing() with connectSocket(), on queue q
StartProcessing(q) ==
    IF isProcessing
    THEN /\ chunkQueue' = q
         /\ UNCHANGED << isProcessing, socket, sockState, promise, loops >>
    ELSE IF SocketIsOpen(sockState)
    THEN /\ isProcessing' = TRUE
         /\ StartLoop(q, TRUE, isSocketOpen, sockState)
         /\ UNCHANGED << socket, sockState, promise >>
    ELSE /\ FreeSockets # {}
         /\ isProcessing' = TRUE
         /\ socket' = Min(FreeSockets)
         /\ sockState' = [sockState EXCEPT ![Min(FreeSockets)] = "CONNECTING"]
         /\ promise' = [promise EXCEPT ![Min(FreeSockets)] = "pending"]
         /\ chunkQueue' = q
         /\ UNCHANGED loops

\* addChunk(chunk, metadata)
AddChunk(size) ==
    LET r == Enqueue(chunkQueue, nextChunk, size) IN
    /\ nextChunk' = nextChunk + 1
    /\ IF r.ret
       THEN StartProcessing(r.q)
       ELSE /\ chunkQueue' = r.q
            /\ UNCHANGED << isProcessing, socket, sockState, promise, loops >>
    /\ aborted' = IF r.ret /\ ~isProcessing THEN 0 ELSE aborted
    /\ UNCHANGED << queueEvent, processedChunks, isSocketOpen, finish, segments,
                    segmentIndex, rendered, wire,
                    queuedAtFinish, startCall >>

\* start()
Start ==
    /\ StartProcessing(chunkQueue)
    /\ startCall' = IF isProcessing \/ SocketIsOpen(sockState)
                    THEN [pc |-> "resolved", sock |-> NoSocket]
                    ELSE [pc |-> "pending", sock |-> socket']
    /\ aborted' = IF isProcessing THEN aborted ELSE 0
    /\ UNCHANGED << queueEvent, nextChunk, processedChunks, isSocketOpen, finish, segments,
                    segmentIndex,
                    rendered, wire, queuedAtFinish >>

\* socket.onopen, and the continuation of the startProcessing that awaits it
SocketOpen(s) ==
    /\ sockState[s] = "CONNECTING"
    /\ sockState' = [sockState EXCEPT ![s] = "OPEN"]
    /\ isSocketOpen' = TRUE
    /\ IF promise[s] = "pending"
       THEN /\ promise' = [promise EXCEPT ![s] = "resolved"]
            /\ StartLoop(chunkQueue, isProcessing, TRUE, sockState')
       ELSE UNCHANGED << promise, loops, chunkQueue >>
    /\ startCall' = IF promise[s] = "pending" /\ startCall = [pc |-> "pending", sock |-> s]
                    THEN [startCall EXCEPT !.pc = "resolved"]
                    ELSE startCall
    /\ UNCHANGED << queueEvent, nextChunk, isProcessing, processedChunks, socket, finish,
                    segments, segmentIndex, rendered, wire, queuedAtFinish, aborted >>

\* start() awaits startProcessing(), whose catch absorbs the rejection of
\* connectSocket: the promise of start() is fulfilled
StartSettlesOnFailure == [startCall EXCEPT !.pc = "resolved"]

\* a socket closes: a failed attempt (onerror, then onclose), an unexpected
\* closure, or the end of the closing handshake (onclose)
SocketClosed(s) ==
    /\ sockState[s] \in {"CONNECTING", "OPEN", "CLOSING"}
    /\ sockState' = [sockState EXCEPT ![s] = "CLOSED"]
    /\ LET rejecting == promise[s] = "pending" /\ ~isSocketOpen IN
       /\ promise' = [promise EXCEPT ![s] = IF rejecting THEN "rejected" ELSE @]
       /\ isProcessing' = IF rejecting THEN FALSE ELSE isProcessing
       /\ startCall' = IF rejecting /\ startCall = [pc |-> "pending", sock |-> s]
                       THEN StartSettlesOnFailure
                       ELSE startCall
    /\ isSocketOpen' = FALSE
    /\ UNCHANGED << queueVars, nextChunk, processedChunks, socket, loops, finish, segments,
                    segmentIndex,
                    rendered, wire, queuedAtFinish, aborted >>

\* the 50 ms sleep of an idle drain loop ends
LoopWake(l) ==
    /\ loops[l].pc = "sleep"
    /\ LoopStep(l, chunkQueue, isProcessing, isSocketOpen, sockState)
    /\ UNCHANGED << queueEvent, nextChunk, isProcessing, processedChunks, socket,
                    isSocketOpen, sockState, promise, finish, segments,
                    segmentIndex, rendered, wire,
                    queuedAtFinish, aborted, startCall >>

\* item.chunk.arrayBuffer() resolves: this.socket.send(buffer), bookkeeping, next turn
LoopSend(l) ==
    /\ loops[l].pc = "buf"
    /\ IF socket = NoSocket \/ sockState[socket] = "CONNECTING"
       THEN UNCHANGED << wire, processedChunks >>
       ELSE /\ wire' = IF sockState[socket] = "OPEN"
                       THEN Append(wire, [sock |-> socket, kind |-> "bin",
                                          id |-> loops[l].item.id])
                       ELSE wire
            /\ processedChunks' = processedChunks \cup {loops[l].item.id}
    /\ LoopStep(l, chunkQueue, isProcessing, isSocketOpen, sockState)
    /\ UNCHANGED << queueEvent, nextChunk, isProcessing, socket, isSocketOpen, sockState,
                    promise, finish, segments,
                    segmentIndex, rendered, queuedAtFinish, aborted, startCall >>

\* finishProcessing from the test of its wait loop to its next await (or its end)
FinishStep(attempts) ==
    IF Size(chunkQueue) > 0 /\ attempts < MAX_ATTEMPTS
    THEN /\ finish' = [pc |-> "poll", attempts |-> attempts, timedOut |-> FALSE]
         /\ UNCHANGED wire
    ELSE IF SocketIsOpen(sockState)
    THEN /\ wire' = Append(wire, [sock |-> socket, kind |-> "flush", id |-> 0])
         /\ finish' = [pc |-> "settle", attempts |-> 0,
                       timedOut |-> Size(chunkQueue) > 0]
    ELSE /\ finish' = [pc |-> "done", attempts |-> 0, timedOut |-> Size(chunkQueue) > 0]
         /\ UNCHANGED wire

\* finishProcessing()
FinishProcessing ==
    /\ finish.pc = "idle"
    /\ isProcessing' = FALSE
    /\ queuedAtFinish' = { chunkQueue.items[i].id : i \in 1..Len(chunkQueue.items) }
    /\ FinishStep(0)
    /\ UNCHANGED << queueVars, nextChunk, processedChunks, socket, isSocketOpen, sockState,
                    promise, loops, segments, segmentIndex, rendered, aborted, startCall >>

\* the 50 ms sleep of finishProcessing ends
FinishPoll ==
    /\ finish.pc = "poll"
    /\ FinishStep(finish.attempts + 1)
    /\ UNCHANGED << queueVars, nextChunk, isProcessing, processedChunks, socket,
                    isSocketOpen, sockState, promise, loops, segments,
                    segmentIndex, rendered, queuedAtFinish,
                    aborted, startCall >>

\* the 1000 ms settle time ends: this.socket.close()
FinishSettle ==
    /\ finish.pc = "settle"
    /\ IF socket = NoSocket
       THEN /\ finish' = [finish EXCEPT !.pc = "threw"]
            /\ UNCHANGED sockState
       ELSE /\ finish' = [finish EXCEPT !.pc = "done"]
            /\ sockState' = CloseSocket(sockState, socket)
    /\ UNCHANGED << queueVars, nextChunk, isProcessing, processedChunks, socket,
                    isSocketOpen, promise, loops, segments,
                    segmentIndex, rendered, wire, queuedAtFinish, aborted,
                    startCall >>

\* an abort that leaves the socket in place and open
AbortKeepsSocket ==
    /\ isProcessing' = FALSE
    /\ chunkQueue' = Clear(chunkQueue)
    /\ UNCHANGED << sockState, socket >>
    /\ segments' = ClearSegments(segments)
    /\ segmentIndex' = << >>
    /\ rendered' = NoRender
    /\ processedChunks' = {}
    /\ aborted' = IF aborted < 2 THEN aborted + 1 ELSE aborted
    /\ UNCHANGED << queueEvent, nextChunk, isSocketOpen, promise, loops, finish, wire,
                    queuedAtFinish, startCall >>

\* an abort that does not clear the queue
AbortKeepsQueue ==
    /\ isProcessing' = FALSE
    /\ chunkQueue' = chunkQueue
    /\ IF socket # NoSocket
       THEN /\ sockState' = CloseSocket(sockState, socket)
            /\ socket' = NoSocket
       ELSE UNCHANGED << sockState, socket >>
    /\ segments' = ClearSegments(segments)
    /\ segmentIndex' = << >>
    /\ rendered' = NoRender
    /\ processedChunks' = {}
    /\ aborted' = IF aborted < 2 THEN aborted + 1 ELSE aborted
    /\ UNCHANGED << queueEvent, nextChunk, isSocketOpen, promise, loops, finish, wire,
                    queuedAtFinish, startCall >>

\* an abort without cleanup(): result log and sent ids kept
AbortNoCleanup ==
    /\ isProcessing' = FALSE
    /\ chunkQueue' = Clear(chunkQueue)
    /\ IF socket # NoSocket
       THEN /\ sockState' = CloseSocket(sockState, socket)
            /\ socket' = NoSocket
       ELSE UNCHANGED << sockState, socket >>
    /\ UNCHANGED << segments, segmentIndex, rendered, processedChunks >>
    /\ aborted' = IF aborted < 2 THEN aborted + 1 ELSE aborted
    /\ UNCHANGED << queueEvent, nextChunk, isSocketOpen, promise, loops, finish, wire,
                    queuedAtFinish, startCall >>

\* abort() with cleanup()
Abort ==
    /\ isProcessing' = FALSE
    /\ chunkQueue' = Clear(chunkQueue)
    /\ IF socket # NoSocket
       THEN /\ sockState' = CloseSocket(sockState, socket)
            /\ socket' = NoSocket
       ELSE UNCHANGED << sockState, socket >>
    /\ segments' = ClearSegments(segments)
    /\ segmentIndex' = << >>
    /\ rendered' = NoRender
    /\ processedChunks' = {}
    /\ aborted' = IF aborted < 2 THEN aborted + 1 ELSE aborted
    /\ UNCHANGED << queueEvent, nextChunk, isSocketOpen, promise, loops, finish, wire,
                    queuedAtFinish, startCall >>

\* an onmessage that lets the failure of a message it cannot use end the
\* connection
SocketMessageStrict(s, type, text) ==
    /\ sockState[s] = "OPEN"
    /\ IF type = "transcription" /\ text # << >>
       THEN /\ segments' = AddSegment(segments, text)
            /\ segmentIndex' = Append(segmentIndex, Cardinality(processedChunks))
            /\ rendered' = NoRender
            /\ UNCHANGED sockState
       ELSE /\ UNCHANGED << segments, segmentIndex, rendered >>
            /\ sockState' = IF type = "transcription" THEN sockState
                            ELSE CloseSocket(sockState, s)
    /\ UNCHANGED << queueVars, nextChunk, isProcessing, processedChunks, socket,
                    isSocketOpen, promise, loops, finish, wire, queuedAtFinish,
                    aborted, startCall >>

\* socket.onmessage: handleMessage / handleTranscriptionResult
SocketMessage(s, type, text) ==
    /\ sockState[s] = "OPEN"
    /\ IF type = "transcription" /\ text # << >>
       THEN /\ segments' = AddSegment(segments, text)
            /\ segmentIndex' = Append(segmentIndex, Cardinality(processedChunks))
            /\ rendered' = NoRender
       ELSE UNCHANGED << segments, segmentIndex, rendered >>
    /\ UNCHANGED << queueVars, nextChunk, isProcessing, processedChunks, socket,
                    isSocketOpen, sockState, promise, loops, finish, wire, queuedAtFinish,
                    aborted, startCall >>

\* getPartialResult(): resultCompiler.getPartialResult(includeTimestamps)
ServiceGetPartialResult(includeTimestamps) ==
    /\ rendered' = [op |-> "partial", ts |-> includeTimestamps,
                    out |-> GetPartialResult(segments, includeTimestamps)]
    /\ UNCHANGED << queueVars, nextChunk, isProcessing, processedChunks, socket,
                    isSocketOpen, sockState, promise, loops, finish, segments, segmentIndex, wire,
                    queuedAtFinish, aborted, startCall >>

\* a getFinalResult that hands the log over to the caller and empties it
CompilerGetFinalResultConsuming(includeTimestamps) ==
    /\ rendered' = [op |-> "final", ts |-> includeTimestamps,
                    out |-> GetFinalResult(segments, includeTimestamps, TRUE)]
    /\ segments' = << >>
    /\ segmentIndex' = << >>
    /\ UNCHANGED << queueVars, nextChunk, isProcessing, processedChunks, socket,
                    isSocketOpen, sockState, promise, loops, finish, wire,
                    queuedAtFinish, aborted, startCall >>

\* resultCompiler.getFinalResult(includeTimestamps, true), as finishProcessing
\* calls it for its return value
CompilerGetFinalResult(includeTimestamps) ==
    /\ rendered' = [op |-> "final", ts |-> includeTimestamps,
                    out |-> GetFinalResult(segments, includeTimestamps, TRUE)]
    /\ UNCHANGED << queueVars, nextChunk, isProcessing, processedChunks, socket,
                    isSocketOpen, sockState, promise, loops, finish, segments, segmentIndex, wire,
                    queuedAtFinish, aborted, startCall >>

(***************************************************************************)
(* TimerModal: the data-available callback of the recorder                 *)
(***************************************************************************)
\* processAudioChunk(blob) up to its await: the metadata is built from
\* chunkIndex and handed to addChunk with the blob
ProcessAudioChunk(size) ==
    /\ handed' = Append(handed, [id |-> chunkIndex, index |-> chunkIndex])
    /\ suspended' = suspended + 1
    /\ AddChunk(size)
    /\ UNCHANGED chunkIndex

\* processAudioChunk after its await: this.chunkIndex++
ProcessAudioChunkResumes ==
    /\ suspended > 0
    /\ suspended' = suspended - 1
    /\ chunkIndex' = chunkIndex + 1
    /\ UNCHANGED << handed, clientVars >>

(***************************************************************************)
(* ChunkQueue called directly                                              *)
(***************************************************************************)
QueueEnqueue(size) ==
    LET r == Enqueue(chunkQueue, nextChunk, size) IN
    /\ chunkQueue' = r.q
    /\ queueEvent' = [op |-> "enqueue", id |-> nextChunk, size |-> size,
                      ret |-> r.ret, warning |-> r.warning]
    /\ nextChunk' = nextChunk + 1
    /\ UNCHANGED sessionVars

QueueDequeue ==
    LET d == Dequeue(chunkQueue) IN
    /\ chunkQueue' = d.q
    /\ queueEvent' = [op |-> "dequeue", id |-> d.item.id, size |-> d.item.size,
                      ret |-> d.item # NoItem, warning |-> NoWarning]
    /\ UNCHANGED << nextChunk, sessionVars >>

QueueClear ==
    /\ chunkQueue' = Clear(chunkQueue)
    /\ queueEvent' = [op |-> "clear", id |-> 0, size |-> 0, ret |-> TRUE,
                      warning |-> NoWarning]
    /\ UNCHANGED << nextChunk, sessionVars >>

ClientInit ==
    /\ chunkQueue = EmptyQueue
    /\ queueEvent = [op |-> "new", id |-> 0, size |-> 0, ret |-> TRUE, warning |-> NoWarning]
    /\ isProcessing = FALSE
    /\ processedChunks = {}
    /\ socket = NoSocket
    /\ isSocketOpen = FALSE
    /\ sockState = [s \in SocketIds |-> "NONE"]
    /\ promise = [s \in SocketIds |-> "none"]
    /\ loops = [l \in LoopIds |-> LoopOff]
    /\ finish = [pc |-> "idle", attempts |-> 0, timedOut |-> FALSE]
    /\ segments = << >>
    /\ segmentIndex = << >>
    /\ rendered = NoRender
    /\ wire = << >>
    /\ aborted = 0
    /\ startCall = [pc |-> "none", sock |-> NoSocket]
    /\ nextChunk = 1
    /\ queuedAtFinish = {}

ServerInit ==
    /\ pcmBuffer = << >>
    /\ transcriptionTimer = NoTimer
    /\ isTranscribing = FALSE
    /\ lastTranscriptionTime = 0
    /\ command = FALSE
    /\ ffmpegFailed = FALSE
    /\ now = 0
    /\ timerQueue = {}
    /\ ffInput = << >>
    /\ inflight = << >>
    /\ sent = << >>
    /\ closed = FALSE
    /\ nextFrame = 1
    /\ lastFrameTime = 0
    /\ prevFrameTime = 0
    /\ controlCount = 0
    /\ triggerCount = [k \in TriggerKinds |-> 0]
    /\ silenceTriggers = 0
    /\ inferences = << >>
    /\ discarded = << >>
    /\ lastEvent = "connection"
    /\ lastResult = NoResult
    /\ receivedBeforeReset = {}

ModalInit ==
    /\ chunkIndex = 0
    /\ suspended = 0
    /\ handed = << >>

\* a second connection established at the same time as the first
PeerInit ==
    /\ conn = 1
    /\ parked = Connection

Init == ServerInit /\ ClientInit /\ ModalInit /\ PeerInit

\* the clock of the bounded model: MaxTimeTicks short steps, after an optional idle wait
ShortTickAllowed ==
    \/ now < MaxTimeTicks * TICK_MS
    \/ now >= IDLE_WAIT_MS /\ now - IDLE_WAIT_MS < MaxTimeTicks * TICK_MS

Next ==
    \/ (nextFrame <= MaxFrames /\ BinaryFrame /\ UNCHANGED outsideServer)
    \/ (FfmpegData /\ UNCHANGED outsideServer)
    \/ (FfmpegError /\ UNCHANGED outsideServer)
    \/ (SilenceTimerFires /\ UNCHANGED outsideServer)
    \/ (/\ controlCount < MaxControl
        /\ \E type \in ControlTypes : TextFrame(type)
        /\ UNCHANGED outsideServer)
    \/ (/\ \E i \in 1..Len(inflight), text \in Texts : InferenceDone(i, text)
        /\ UNCHANGED outsideServer)
    \/ ((\E i \in 1..Len(inflight) : InferenceFail(i)) /\ UNCHANGED outsideServer)
    \/ (Close /\ UNCHANGED outsideServer)
    \/ (~closed /\ ShortTickAllowed /\ Tick(TICK_MS) /\ UNCHANGED outsideServer)
    \/ (/\ now = 0 /\ nextFrame = 1 /\ controlCount = 0 /\ ~closed
        /\ Tick(IDLE_WAIT_MS)
        /\ UNCHANGED outsideServer)

Spec == Init /\ [][Next]_vars

(***************************************************************************)
(* A connection that receives binary frames continuously: the clock moves  *)
(* in steps of the silence threshold and a frame arrives in every step, so *)
(* no gap is longer than the threshold.  A frame that arrives exactly at   *)
(* the threshold is handled before the timeout that is due at the same     *)
(* instant (a timeout that ran first would itself be a trigger).           *)
(***************************************************************************)
NextContinuous ==
    \/ (nextFrame <= MaxStreamFrames /\ BinaryFrame /\ UNCHANGED outsideServer)
    \/ (FfmpegData /\ UNCHANGED outsideServer)
    \/ (/\ \E i \in 1..Len(inflight), text \in Texts : InferenceDone(i, text)
        /\ UNCHANGED outsideServer)
    \/ ((\E i \in 1..Len(inflight) : InferenceFail(i)) /\ UNCHANGED outsideServer)
    \/ (/\ now < MaxStreamTicks * SILENCE_MS
        /\ now + SILENCE_MS - lastFrameTime <= SILENCE_MS
        /\ Tick(SILENCE_MS)
        /\ UNCHANGED outsideServer)

SpecContinuous == Init /\ [][NextContinuous]_vars

(***************************************************************************)
(* One streaming session on the client, driven as TimerModal drives it:    *)
(* addChunk, finishProcessing, abort                                       *)
(***************************************************************************)
NextClient ==
    \/ (/\ nextChunk <= MaxChunks
        /\ \E size \in 1..MaxChunkSize : AddChunk(size)
        /\ UNCHANGED outsideClient)
    \/ ((\E s \in SocketIds : SocketOpen(s)) /\ UNCHANGED outsideClient)
    \/ ((\E s \in SocketIds : SocketClosed(s)) /\ UNCHANGED outsideClient)
    \/ ((\E l \in LoopIds : LoopWake(l)) /\ UNCHANGED outsideClient)
    \/ ((\E l \in LoopIds : LoopSend(l)) /\ UNCHANGED outsideClient)
    \/ (FinishProcessing /\ UNCHANGED outsideClient)
    \/ (FinishPoll /\ UNCHANGED outsideClient)
    \/ (FinishSettle /\ UNCHANGED outsideClient)
    \/ (Abort /\ UNCHANGED outsideClient)
    \/ (/\ \E s \in SocketIds, type \in MessageTypes, text \in {<< >>, << "a" >>} :
              /\ Len(segments) < MaxSegments \/ type # "transcription" \/ text = << >>
              /\ SocketMessage(s, type, text)
        /\ UNCHANGED outsideClient)

SpecClient == Init /\ [][NextClient]_vars

(***************************************************************************)
(* A session opened with start() before any chunk is added                 *)
(***************************************************************************)
NextStart ==
    \/ (startCall.pc = "none" /\ nextChunk = 1 /\ Start /\ UNCHANGED outsideClient)
    \/ NextClient

SpecStart == Init /\ [][NextStart]_vars

(***************************************************************************)
(* A session that receives transcripts and renders them: one chunk opens   *)
(* the connection, the backend sends up to MaxCompiled transcripts         *)
(***************************************************************************)
CompileTexts == { << >>, << "a" >>, << "b" >>, << "c" >> }

NextCompile ==
    \/ (/\ nextChunk <= MaxCompileChunks
        /\ \E size \in 1..MaxChunkSize : AddChunk(size)
        /\ UNCHANGED outsideClient)
    \/ ((\E s \in SocketIds : SocketOpen(s)) /\ UNCHANGED outsideClient)
    \/ ((\E s \in SocketIds : SocketClosed(s)) /\ UNCHANGED outsideClient)
    \/ ((\E l \in LoopIds : LoopWake(l)) /\ UNCHANGED outsideClient)
    \/ ((\E l \in LoopIds : LoopSend(l)) /\ UNCHANGED outsideClient)
    \/ (Abort /\ UNCHANGED outsideClient)
    \/ (/\ \E s \in SocketIds, type \in MessageTypes, text \in CompileTexts :
              /\ Len(segments) < MaxCompiled \/ type # "transcription" \/ text = << >>
              /\ SocketMessage(s, type, text)
        /\ UNCHANGED outsideClient)
    \/ ((\E ts \in BOOLEAN : ServiceGetPartialResult(ts)) /\ UNCHANGED outsideClient)
    \/ ((\E ts \in BOOLEAN : CompilerGetFinalResult(ts)) /\ UNCHANGED outsideClient)

SpecCompile == Init /\ [][NextCompile]_vars

(***************************************************************************)
(* A recording in streaming mode: the recorder delivers blobs to           *)
(* processAudioChunk while the session connects and drains                 *)
(***************************************************************************)
NextRecording ==
    \/ (/\ nextChunk <= MaxRecorded
        /\ \E size \in 1..MaxChunkSize : ProcessAudioChunk(size)
        /\ UNCHANGED << serverVars, peerVars >>)
    \/ (ProcessAudioChunkResumes /\ UNCHANGED << serverVars, peerVars >>)
    \/ ((\E s \in SocketIds : SocketOpen(s)) /\ UNCHANGED outsideClient)
    \/ ((\E s \in SocketIds : SocketClosed(s)) /\ UNCHANGED outsideClient)
    \/ ((\E l \in LoopIds : LoopWake(l)) /\ UNCHANGED outsideClient)
    \/ ((\E l \in LoopIds : LoopSend(l)) /\ UNCHANGED outsideClient)

SpecRecording == Init /\ [][NextRecording]_vars

(***************************************************************************)
(* Two connections served side by side: each receives up to MaxPeerFrames  *)
(* binary frames, may be flushed, and may close at any time                *)
(***************************************************************************)
NextPeers ==
    \/ (nextFrame <= MaxPeerFrames /\ BinaryFrame /\ UNCHANGED outsideServer)
    \/ (FfmpegData /\ UNCHANGED outsideServer)
    \/ (SilenceTimerFires /\ UNCHANGED outsideServer)
    \/ (controlCount < MaxControl /\ TextFrame("flush") /\ UNCHANGED outsideServer)
    \/ (/\ \E i \in 1..Len(inflight) : InferenceDone(i, << "a" >>)
        /\ UNCHANGED outsideServer)
    \/ (Close /\ UNCHANGED outsideServer)
    \/ (/\ now < MaxPeerTicks * SILENCE_MS
        /\ \A d \in parked.timerQueue : now + SILENCE_MS <= d
        /\ Tick(SILENCE_MS)
        /\ UNCHANGED outsideServer)
    \/ OtherConnection

SpecPeers == Init /\ [][NextPeers]_vars

(***************************************************************************)
(* A ChunkQueue under arbitrary sequences of enqueue, dequeue and clear    *)
(***************************************************************************)
NextQueue ==
    \/ (/\ nextChunk <= MaxQueueCalls
        /\ \E size \in 1..MaxChunkSize : QueueEnqueue(size)
        /\ UNCHANGED outsideClient)
    \/ (QueueDequeue /\ UNCHANGED outsideClient)
    \/ (QueueClear /\ UNCHANGED outsideClient)

SpecQueue == Init /\ [][NextQueue]_vars

(***************************************************************************)
(* Properties                                                              *)
(***************************************************************************)
TotalTriggers ==
    triggerCount["silence"] + triggerCount["latency"] + triggerCount["flush"]

\* frames whose PCM ffmpeg has emitted (pushed to pcmBuffer at some time)
AppendedFrames == { f \in 1..(nextFrame - 1) : f \notin Range(ffInput) }

InBuffer(f) == Count(Concat(pcmBuffer), [pcm |-> f])

InSnapshots(f) == Count(Concat(inferences), [f32 |-> f])

InDiscarded(f) == Count(discarded, [pcm |-> f])

\* C1: on one connection at most one transcribeFloat32 call is in flight at any
\* time, whatever the interleaving of frames, flushes, timer expiries, latency
\* checks and completions.
C1_AtMostOneInference == Len(inflight) <= 1

\* a trigger arrived while an inference was running on an earlier snapshot
C1_Witness ==
    /\ Len(inflight) = 1
    /\ pcmBuffer # << >>
    /\ lastEvent \in {"silence", "flush"}
    /\ Len(inferences) = 1

\* C2: the snapshot and the clearing of the buffer are one step with respect to
\* ingestion: every PCM chunk ffmpeg emitted is in exactly one place (still in
\* the buffer, in exactly one snapshot, or discarded by reset or close), chunks
\* not yet emitted are in none, and the input of the running inference is the
\* snapshot taken at its trigger, untouched by later data.
C2_SnapshotSwapAtomic ==
    /\ \A f \in AppendedFrames : InBuffer(f) + InSnapshots(f) + InDiscarded(f) = 1
    /\ \A f \in 1..(nextFrame - 1) \ AppendedFrames :
          InBuffer(f) + InSnapshots(f) + InDiscarded(f) = 0
    /\ Len(inflight) = 1 => inflight[1] = inferences[Len(inferences)]

\* PCM arrived while an inference was running and went to the fresh buffer
C2_Witness ==
    /\ Len(inflight) = 1
    /\ lastEvent = "data"
    /\ pcmBuffer # << >>
    /\ \A c \in Range(Concat(pcmBuffer)) : [f32 |-> c.pcm] \notin Range(inflight[1])

\* positions of the wire log holding a flush message
FlushPositions == { k \in 1..Len(wire) : wire[k].kind = "flush" }

\* ids of the chunks transmitted on socket s before position k of the wire log
SentBefore(k, s) ==
    { wire[j].id : j \in { n \in 1..(k - 1) : wire[n].kind = "bin" /\ wire[n].sock = s } }

\* some activation of the drain loop is running
Draining == \E l \in LoopIds : loops[l].pc # "off"

\* C3: after finish is requested, while the socket stays open and the queue is
\* not empty a drain loop is still running, and, unless the 5-second ceiling
\* elapsed, every chunk that was queued when finish was requested has been
\* transmitted before the flush message.
C3_DrainsQueueBeforeFlush ==
    /\ (/\ finish.pc = "poll"
        /\ SocketIsOpen(sockState)
        /\ isSocketOpen
        /\ Size(chunkQueue) > 0)
          => Draining
    /\ \A k \in FlushPositions :
          ~finish.timedOut => queuedAtFinish \subseteq SentBefore(k, wire[k].sock)

\* C4: on each socket, no binary audio frame is transmitted after the flush
\* message.
C4_NoAudioAfterFlush ==
    \A k \in FlushPositions :
        \A j \in (k + 1)..Len(wire) :
            ~(wire[j].kind = "bin" /\ wire[j].sock = wire[k].sock)

\* the byte total of a sequence of queued items
RECURSIVE TotalSize(_)
TotalSize(items) ==
    IF items = << >> THEN 0 ELSE Head(items).size + TotalSize(Tail(items))

\* C5: under every sequence of enqueue, dequeue and clear calls the byte total
\* of the queue (which is the sum of the sizes of the queued chunks) never
\* exceeds the memory ceiling and the item count never exceeds the maximum.
C5_QueueWithinBounds ==
    /\ GetMemoryUsage(chunkQueue) <= MemoryLimit
    /\ Size(chunkQueue) <= MaxQueueSize
    /\ GetMemoryUsage(chunkQueue) = TotalSize(chunkQueue.items)

\* a queue filled to both limits that has just rejected a chunk
C5_Witness ==
    /\ queueEvent.op = "enqueue"
    /\ ~queueEvent.ret
    /\ GetMemoryUsage(chunkQueue) = MemoryLimit
    /\ Size(chunkQueue) = MaxQueueSize

\* C6: enqueue returns true and appends the chunk iff item count + 1 <= maximum
\* and byte total + chunk size <= ceiling; otherwise it returns false, sets
\* paused, raises the memory warning with the utilization percentage, and
\* leaves the queued chunks, the item count and the byte total unchanged.
C6_EnqueueAcceptsIffFits ==
    [][ nextChunk' = nextChunk + 1 =>
          LET before == chunkQueue
              after == chunkQueue'
              chunk == [id |-> queueEvent'.id, size |-> queueEvent'.size]
              fits == /\ Len(before.items) + 1 <= MaxQueueSize
                      /\ before.currentMemory + chunk.size <= MemoryLimit
          IN /\ queueEvent'.op = "enqueue"
             /\ queueEvent'.ret = fits
             /\ fits => /\ after.items = Append(before.items, chunk)
                        /\ after.currentMemory = before.currentMemory + chunk.size
                        /\ queueEvent'.warning = NoWarning
             /\ ~fits => /\ after.items = before.items
                         /\ after.currentMemory = before.currentMemory
                         /\ after.paused
                         /\ queueEvent'.warning
                              = (before.currentMemory * 100) \div MemoryLimit
      ]_vars

\* a chunk rejected for memory alone, the one queued chunk kept, the warning raised
C6_Witness ==
    /\ queueEvent.op = "enqueue"
    /\ ~queueEvent.ret
    /\ queueEvent.warning > 0
    /\ Size(chunkQueue) = 1
    /\ Size(chunkQueue) < MaxQueueSize
    /\ chunkQueue.paused
    /\ GetMemoryUsage(chunkQueue) + queueEvent.size > MemoryLimit

\* C7: a trigger (silence timer, latency bound, flush) that occurs while an
\* inference is in flight or while the buffer is empty starts no inference, sends
\* nothing, leaves buffer, in-flight flag and last-trigger timestamp unchanged,
\* and is not queued: the completion of an inference starts no other.
C7_DroppedTriggerIsNoOp ==
    [][ /\ ( /\ lastEvent' \in TriggerKinds
             /\ (isTranscribing \/ pcmBuffer = << >>) )
           => /\ pcmBuffer' = pcmBuffer
              /\ isTranscribing' = isTranscribing
              /\ lastTranscriptionTime' = lastTranscriptionTime
              /\ inflight' = inflight
              /\ inferences' = inferences
              /\ sent' = sent
        /\ lastEvent' \in {"done", "failed"}
           => /\ inferences' = inferences
              /\ inflight' = << >>
      ]_vars

\* a flush on a connection with no buffered audio did nothing
C7_Witness ==
    /\ lastEvent = "flush"
    /\ triggerCount["flush"] = 1
    /\ pcmBuffer = << >>
    /\ inferences = << >>
    /\ sent = << >>
    /\ ~isTranscribing

\* C8: once audio has been received, on an open connection each silence episode
\* (no binary frame for longer than the silence threshold) has had exactly one
\* silence trigger, and no episode ever has more than one.
C8_OneSilenceTriggerPerEpisode ==
    /\ silenceTriggers <= 1
    /\ (nextFrame > 1 /\ ~closed /\ now - lastFrameTime > SILENCE_MS)
          => silenceTriggers = 1

\* a silence episode after two frames, with its one trigger
C8_Witness ==
    /\ nextFrame > 2
    /\ ~closed
    /\ now - lastFrameTime > SILENCE_MS
    /\ silenceTriggers = 1
    /\ triggerCount["silence"] = 1

\* C9: on a connection receiving frames continuously (no gap longer than the
\* silence threshold), once twice the latency ceiling has elapsed at least one
\* transcription trigger has fired.
C9_LatencyTriggerFires ==
    now >= 2 * LATENCY_MS => TotalTriggers >= 1

\* continuous frames for twice the latency ceiling, and the latency trigger fired
C9_Witness ==
    /\ now >= 2 * LATENCY_MS
    /\ now - lastFrameTime <= SILENCE_MS
    /\ triggerCount["latency"] >= 1
    /\ triggerCount["silence"] = 0

\* the scenario of C10: exactly two frames, the second 100 ms after the first,
\* then at least 600 ms without a frame, no control message, connection open
TwoFramesThenGap ==
    /\ nextFrame = 3
    /\ lastFrameTime - prevFrameTime = 100
    /\ now - lastFrameTime >= 600
    /\ controlCount = 0
    /\ ~closed

\* C10: two frames 100 ms apart followed by a 600 ms gap produce exactly one
\* trigger (the silence trigger), and exactly one inference, invoked on the
\* transcoded concatenation of both frames.
C10_TwoFramesOneInference ==
    TwoFramesThenGap =>
        /\ TotalTriggers = 1
        /\ triggerCount["silence"] = 1
        /\ inferences = << ToFloat32(Transcode(1) \o Transcode(2)) >>

\* the step is the completion of an inference pass with a result text
InferenceSucceeds == lastEvent' = "done" /\ Len(inflight') < Len(inflight)

\* C11 as stated: whenever an inference pass completes successfully on an open
\* connection, exactly one message of type "transcription" carrying the
\* resulting text (as returned, or trimmed) is sent.
C11_EverySuccessSendsTranscription ==
    [][ (InferenceSucceeds /\ ~closed) =>
          \E m \in { [type |-> "transcription", text |-> lastResult'.text],
                     [type |-> "transcription", text |-> Trim(lastResult'.text)] } :
              sent' = Append(sent, m)
      ]_vars

\* C11 amended: a successful pass on an open connection sends exactly one
\* "transcription" message carrying the trimmed text when the text is not
\* blank, and sends nothing when the text is empty or whitespace only; on a
\* closed connection nothing is sent.
C11_NonBlankSuccessSendsTranscription ==
    [][ InferenceSucceeds =>
          IF ~closed /\ Trim(lastResult'.text) # << >>
          THEN sent' = Append(sent, [type |-> "transcription",
                                     text |-> Trim(lastResult'.text)])
          ELSE sent' = sent
      ]_vars

\* a pass that returned padded text, answered by one message with the trimmed text
C11_Witness ==
    /\ lastEvent = "done"
    /\ ~closed
    /\ lastResult = [ok |-> TRUE, text |-> << " ", "a", " " >>]
    /\ sent = << [type |-> "transcription", text |-> << "a" >>] >>

\* the step is the failure of the inference pass on a snapshot
InferenceFails == lastEvent' = "failed" /\ Len(inflight') < Len(inflight)

\* the step is the failure of the transcoder
TranscoderFails == ffmpegFailed' /\ ~ffmpegFailed

\* frames written to the transcoder can still come out as PCM, or a new
\* transcoder is started by the next frame
TranscoderUsable == ~command \/ ~ffmpegFailed

\* C12: on an open connection a failure of transcoding or of inference sends
\* exactly one "error" message, a failed inference clears the in-flight flag,
\* the connection stays open, and afterwards audio can still be accumulated
\* (the transcoder is usable) and another inference can be started.
C12_FailureReportedAndSurvived ==
    [][ (~closed /\ (InferenceFails \/ TranscoderFails)) =>
          /\ sent' = Append(sent, [type |-> "error", text |-> << >>])
          /\ InferenceFails => ~isTranscribing'
          /\ ~closed'
          /\ TranscoderUsable'
      ]_vars

\* the inference half of C12 alone
InferenceFailureReportedAndSurvived ==
    [][ (~closed /\ InferenceFails) =>
          /\ sent' = Append(sent, [type |-> "error", text |-> << >>])
          /\ ~isTranscribing'
          /\ ~closed'
          /\ UNCHANGED << pcmBuffer, command, ffmpegFailed, ffInput >>
      ]_vars

\* C13: audio received before a reset and not snapshotted by then is never
\* passed to inference afterwards.
C13_ResetDiscardsReceivedAudio ==
    receivedBeforeReset \cap Snapshotted = {}

\* the step is the handling of a flush control message
FlushHandled == lastEvent' = "flush" /\ controlCount' = controlCount + 1

\* C14: a flush received while the buffer is not empty and no inference is in
\* flight starts, in that same step, an inference on all the buffered audio and
\* empties the buffer, without the clock or the silence timer moving.
C14_FlushTriggersImmediately ==
    [][ (FlushHandled /\ pcmBuffer # << >> /\ ~isTranscribing) =>
          /\ inflight' = Append(inflight, ToFloat32(Concat(pcmBuffer)))
          /\ inferences' = Append(inferences, ToFloat32(Concat(pcmBuffer)))
          /\ isTranscribing'
          /\ pcmBuffer' = << >>
          /\ UNCHANGED << now, timerQueue, lastTranscriptionTime >>
      ]_vars

\* a flush started an inference on two buffered frames while the silence timer
\* was still pending and the latency bound was not exceeded
C14_Witness ==
    /\ lastEvent = "flush"
    /\ inflight = << ToFloat32(Transcode(1) \o Transcode(2)) >>
    /\ pcmBuffer = << >>
    /\ TotalTriggers = 1
    /\ triggerCount["flush"] = 1
    /\ \E d \in timerQueue : d > now
    /\ ~LatencyBoundExceeded

\* C15: finishProcessing polls the queue at most MAX_ATTEMPTS times and ends
\* by returning the final result, never by an exception.
C15_FinishAlwaysReturns ==
    /\ finish.attempts <= MAX_ATTEMPTS
    /\ finish.pc # "threw"

\* the socket the session holds is neither open nor connecting
HoldsNoLiveSocket(sock, st) == sock = NoSocket \/ st[sock] \in {"CLOSING", "CLOSED"}

\* C16: when finishProcessing returns, the socket of the session has been
\* closed: the session holds no open or still-connecting socket.
C16_ClosedWhenFinishReturns ==
    [][ (finish.pc # "done" /\ finish'.pc = "done") => HoldsNoLiveSocket(socket', sockState')
      ]_vars

AbortCalled == aborted' = aborted + 1

\* C18: abort() sends nothing (no flush), closes the socket the session holds,
\* and leaves the queue with size 0 and memory usage 0 and the session without
\* a socket.
C18_AbortClosesAndReleases ==
    [][ AbortCalled =>
          /\ wire' = wire
          /\ socket # NoSocket => sockState'[socket] \in {"CLOSING", "CLOSED"}
          /\ socket' = NoSocket
          /\ Size(chunkQueue') = 0
          /\ GetMemoryUsage(chunkQueue') = 0
      ]_vars

\* abort() ran with an open socket, one chunk sent and one still queued
C18_Witness ==
    /\ aborted = 1
    /\ socket = NoSocket
    /\ sockState[1] = "CLOSING"
    /\ chunkQueue = EmptyQueue
    /\ wire = << [sock |-> 1, kind |-> "bin", id |-> 1] >>
    /\ nextChunk = 3
    /\ \A l \in LoopIds : loops[l].pc # "buf"

\* C19: a second abort() leaves the session as the first did: not processing,
\* no socket, empty queue, empty result log, empty sent-id set, nothing
\* transmitted, finishProcessing not disturbed.
C19_AbortIdempotent ==
    [][ (aborted = 1 /\ AbortCalled) =>
          /\ ~isProcessing'
          /\ socket' = NoSocket
          /\ chunkQueue' = EmptyQueue
          /\ segments' = << >>
          /\ processedChunks' = {}
          /\ UNCHANGED << isProcessing, socket, chunkQueue, sockState, wire, finish, loops >>
      ]_vars

\* abort() was called twice in a row on a session that had sent a chunk
C19_Witness ==
    /\ aborted = 2
    /\ wire # << >>
    /\ ~isProcessing
    /\ socket = NoSocket
    /\ processedChunks = {}

\* C20: when the connection attempt made by start() fails, the promise of
\* start() is rejected.
C20_StartRejectsOnConnectFailure ==
    \A s \in SocketIds :
        (startCall.sock = s /\ promise[s] = "rejected") => startCall.pc = "rejected"

\* C21: an inbound message that is not valid JSON, or that is valid but not a
\* transcription (an error report), is skipped.  On every open socket the
\* handler completes for such a message and leaves the whole session as it
\* was: no segment appended, drain loops, sockets and flags untouched; and a
\* transcription message that follows is appended to the log.
C21_SkippedMessageChangesNothing ==
    \A s \in SocketIds :
        sockState[s] = "OPEN" =>
            /\ \A type \in MessageTypes \ {"transcription"}, text \in CompileTexts :
                   /\ ENABLED (SocketMessage(s, type, text) /\ UNCHANGED outsideClient)
                   /\ ~ENABLED (/\ SocketMessage(s, type, text)
                                /\ UNCHANGED outsideClient
                                /\ clientVars' # clientVars)
            /\ \A text \in CompileTexts \ {<< >>} :
                   ENABLED (/\ SocketMessage(s, "transcription", text)
                            /\ UNCHANGED outsideClient
                            /\ segments' = Append(segments, text))

\* an open socket with a drain loop at work and a chunk still queued
C21_Witness ==
    /\ \E s \in SocketIds : sockState[s] = "OPEN" /\ socket = s
    /\ isProcessing
    /\ \E l \in LoopIds : loops[l].pc = "buf"
    /\ Size(chunkQueue) > 0
    /\ segments = << >>

\* C22: once a rejected enqueue has set paused, a dequeue after which the
\* next chunk fits (count + 1 within the maximum, bytes + size within the
\* ceiling) leaves isPaused() false, and the enqueue of that chunk then
\* returns true and is queued last.
C22_DequeueUntilFitsUnpauses ==
    [][ (IsPaused(chunkQueue) /\ queueEvent'.op = "dequeue" /\ queueEvent'.ret) =>
          \A size \in 1..MaxChunkSize :
              Fits(chunkQueue', size) =>
                  LET r == Enqueue(chunkQueue', nextChunk, size)
                  IN /\ ~IsPaused(chunkQueue')
                     /\ r.ret
                     /\ r.q.items = Append(chunkQueue'.items, [id |-> nextChunk, size |-> size])
                     /\ ~IsPaused(r.q)
      ]_vars

\* three enqueues, the third rejected; one dequeue later the second chunk is
\* alone in the queue, the queue is not paused and has room again
C22_Witness ==
    /\ nextChunk = 4
    /\ queueEvent.op = "dequeue"
    /\ queueEvent.id = 1
    /\ Size(chunkQueue) = 1
    /\ chunkQueue.items[1].id = 2
    /\ ~IsPaused(chunkQueue)
    /\ \E size \in 1..MaxChunkSize : Fits(chunkQueue, size)

\* C23: clear() in any reachable queue state (empty, partly filled, full,
\* paused or not) leaves size() = 0, getMemoryUsage() = 0 and isPaused() false.
C23_ClearEmptiesAndUnpauses ==
    [][ queueEvent'.op = "clear" =>
          /\ Size(chunkQueue') = 0
          /\ GetMemoryUsage(chunkQueue') = 0
          /\ ~IsPaused(chunkQueue')
      ]_vars

\* a clear after three enqueues: the queue has been used, filled and emptied
C23_Witness ==
    /\ queueEvent.op = "clear"
    /\ nextChunk = 4
    /\ Size(chunkQueue) = 0
    /\ GetMemoryUsage(chunkQueue) = 0
    /\ ~IsPaused(chunkQueue)

\* the texts between the delimiters of a rendering, in order
RECURSIVE SplitFrom(_)
SplitFrom(str) ==
    IF \A k \in 1..Len(str) : str[k] # Delimiter
    THEN << str >>
    ELSE LET k == Min({ i \in 1..Len(str) : str[i] = Delimiter })
         IN << SubSeq(str, 1, k - 1) >> \o SplitFrom(SubSeq(str, k + 1, Len(str)))

Split(str) == IF str = << >> THEN << >> ELSE SplitFrom(str)

\* C24: segments are appended to the result log in the order their
\* transcription messages are received: each such message puts its text at the
\* end of the log and leaves the earlier entries as they were, and
\* getPartialResult(false) renders the texts in that order.
C24_SegmentsInArrivalOrder ==
    /\ \A s \in SocketIds :
           sockState[s] = "OPEN" =>
               \A text \in CompileTexts \ {<< >>} :
                   /\ ENABLED (SocketMessage(s, "transcription", text) /\ UNCHANGED outsideClient)
                   /\ ~ENABLED (/\ SocketMessage(s, "transcription", text)
                                /\ UNCHANGED outsideClient
                                /\ segments' # Append(segments, text))
    /\ Split(GetPartialResult(segments, FALSE)) = segments
    /\ rendered.op = "partial" /\ ~rendered.ts => Split(rendered.out) = segments

\* A, B and C received in this order and rendered without timestamps
C24_Witness ==
    /\ segments = << << "a" >>, << "b" >>, << "c" >> >>
    /\ rendered = [op |-> "partial", ts |-> FALSE,
                   out |-> << "a", Delimiter, "b", Delimiter, "c" >>]

C26_DroppedTriggerLosesNoAudio ==
    (lastEvent = "silence" /\ isTranscribing /\ pcmBuffer # << >> /\ ~closed)
        => timerQueue # {}

\* with no timeout pending, only a binary frame or a flush starts an inference
NoTriggerWithoutFrameOrTimer ==
    [][ (timerQueue = {} /\ lastEvent' \notin {"frame", "latency", "flush"})
            => inferences' = inferences ]_vars

\* the activations of processQueueLoop that have not returned
RunningLoops == { l \in LoopIds : loops[l].pc # "off" }

\* C27: at any time at most one drain loop is running for the session, under
\* every interleaving of addChunk, start, finishProcessing and abort.
C27_AtMostOneDrainLoop == Cardinality(RunningLoops) <= 1

\* the ids of the chunks sent as binary frames, in the order of transmission
BinaryIds == LET bin == SelectSeq(wire, LAMBDA m : m.kind = "bin")
             IN [i \in 1..Len(bin) |-> bin[i].id]

\* C28: binary frames are transmitted in the order in which their chunks were
\* accepted by enqueue (ids are given in that order), and each accepted chunk
\* is transmitted at most once.
C28_FramesInAcceptanceOrder ==
    \A i, j \in 1..Len(BinaryIds) : i < j => BinaryIds[i] < BinaryIds[j]

\* no chunk is transmitted twice
EachChunkSentAtMostOnce ==
    \A i, j \in 1..Len(BinaryIds) : i # j => BinaryIds[i] # BinaryIds[j]

\* drain loop l runs from the end of its arrayBuffer() await: socket.send
LoopSends(l) == loops[l].pc = "buf" /\ loops'[l] # loops[l]

\* C29: if the socket closes unexpectedly (no finishProcessing, no abort) while
\* the drain loop is active, no send is attempted on a socket that is not
\* open: whenever the loop reaches socket.send, the socket is open.
C29_NoSendOnClosedSocket ==
    [][ \A l \in LoopIds :
            (LoopSends(l) /\ finish.pc = "idle" /\ aborted = 0 /\ socket # NoSocket)
                => sockState[socket] = "OPEN"
      ]_vars

\* a drain loop returns at the test that follows an unexpected close
LoopStopsAfterClose ==
    [][ \A l \in LoopIds :
            (loops[l].pc # "off" /\ loops'[l] # loops[l] /\ ~isSocketOpen)
                => loops'[l] = LoopOff
      ]_vars

\* the connection attempt on socket s fails: it closes without having opened,
\* while startProcessing awaits it
ConnectFails(s) ==
    /\ sockState[s] = "CONNECTING"
    /\ sockState'[s] = "CLOSED"
    /\ promise[s] = "pending"

\* C30: a failed connection attempt returns the session to idle: not
\* processing, no drain loop started, no queued chunk discarded or sent; the
\* session can then retry on a later addChunk or start.
C30_ConnectFailureReturnsToIdle ==
    [][ \A s \in SocketIds :
            ConnectFails(s) =>
                /\ ~isProcessing'
                /\ promise'[s] = "rejected"
                /\ chunkQueue' = chunkQueue
                /\ wire' = wire
                /\ loops' = loops
      ]_vars

\* the same, for a failure that finds the open flag of the session cleared
ConnectFailureWithFlagCleared ==
    [][ \A s \in SocketIds :
            (ConnectFails(s) /\ ~isSocketOpen) =>
                /\ ~isProcessing'
                /\ promise'[s] = "rejected"
                /\ chunkQueue' = chunkQueue
                /\ wire' = wire
                /\ loops' = loops
      ]_vars

\* the session has closed the socket it had opened: after finishProcessing, or
\* because the connection was lost
SessionClosed ==
    /\ socket # NoSocket
    /\ promise[socket] = "resolved"
    /\ sockState[socket] \in {"CLOSING", "CLOSED"}

\* C31: closed is terminal: once the session has closed its socket, after
\* finish or after an unexpected closure, it never opens another socket and
\* never transmits another frame.
C31_ClosedIsTerminal ==
    [][ SessionClosed =>
          /\ \A s \in SocketIds : sockState[s] = "NONE" => sockState'[s] = "NONE"
          /\ wire' = wire
      ]_vars

\* count and bytes are below their limits
BelowLimits(q) == Size(q) < MaxQueueSize /\ GetMemoryUsage(q) < MemoryLimit

C33_TotalsMatchContents ==
    /\ Size(chunkQueue) = Len(chunkQueue.items)
    /\ GetMemoryUsage(chunkQueue) = TotalSize(chunkQueue.items)

\* a chunk enqueued while a drain loop is between its dequeue and its send
C33_Witness ==
    /\ \E l \in LoopIds : loops[l].pc = "buf" /\ loops[l].item.id = 1
    /\ Len(chunkQueue.items) = 1
    /\ chunkQueue.items[1].id = 2
    /\ Size(chunkQueue) = 1
    /\ GetMemoryUsage(chunkQueue) = chunkQueue.items[1].size

\* C34: within one recording session every chunk handed to addChunk has a
\* distinct id and a sequence index strictly greater than that of the chunk
\* produced before it, for every interleaving of the data-available callbacks.
C34_ChunkIdsDistinctAndIncreasing ==
    \A i, j \in 1..Len(handed) :
        i < j => /\ handed[i].id # handed[j].id
                 /\ handed[i].index < handed[j].index

\* C35: the ordering keys of the segments handed to addSegment (the index of
\* their metadata) are distinct and strictly increasing in order of arrival.
C35_SegmentKeysStrictlyIncreasing ==
    /\ Len(segmentIndex) = Len(segments)
    /\ \A i, j \in 1..Len(segmentIndex) : i < j => segmentIndex[i] < segmentIndex[j]

\* the index of a segment is the number of chunk ids sent so far, so it never
\* decreases from one segment of a log to the next
SegmentKeysNeverDecrease ==
    /\ Len(segmentIndex) = Len(segments)
    /\ \A i, j \in 1..Len(segmentIndex) : i < j => segmentIndex[i] <= segmentIndex[j]

\* the close event of connection c is handled in this step
ClosesNow(c) == ~ConnectionOf(c).closed /\ ConnectionOf(c).closed'

\* C36: the close event of a connection cancels its pending silence timer
\* and discards its buffer, and leaves the other connection as it is; from
\* then on no timeout of the closed connection is pending and no further
\* input is handed to transcribeFloat32 for it.
C36_CloseIsTerminalForItsConnection ==
    [][ \A c \in ConnIds :
          /\ ClosesNow(c) =>
                /\ ConnectionOf(c).timerQueue' = {}
                /\ ConnectionOf(c).pcmBuffer' = << >>
                /\ ~ConnectionOf(c).command'
                /\ ConnectionOf(3 - c)' = ConnectionOf(3 - c)
          /\ ConnectionOf(c).closed =>
                /\ ConnectionOf(c).closed'
                /\ ConnectionOf(c).timerQueue' = {}
                /\ ConnectionOf(c).inferences' = ConnectionOf(c).inferences
                /\ ConnectionOf(c).triggerCount' = ConnectionOf(c).triggerCount
      ]_vars

\* a connection was closed with a silence timer pending and PCM buffered,
\* ffmpeg has emitted more PCM for it since, and the other connection, still
\* open, has had its audio transcribed and sent
C36_Witness ==
    \E c \in ConnIds :
        /\ ConnectionOf(c).closed
        /\ ConnectionOf(c).transcriptionTimer > now
        /\ ConnectionOf(c).discarded # << >>
        /\ ConnectionOf(c).pcmBuffer # << >>
        /\ ~ConnectionOf(3 - c).closed
        /\ ConnectionOf(3 - c).sent # << >>

\* a text frame that is not valid JSON, or whose type is neither reset nor
\* flush, is handled in this step
UnknownTextFrame == controlCount' = controlCount + 1 /\ lastEvent' = "ignored"

\* C37: a text frame that is not valid JSON or whose type is neither reset
\* nor flush changes nothing: buffer, silence timer, in-flight flag and
\* last-trigger timestamp are unchanged, no inference is started, no message
\* is sent and the connection stays open.
C37_UnknownTextFrameChangesNothing ==
    [][ UnknownTextFrame =>
          /\ ~closed'
          /\ UNCHANGED << pcmBuffer, transcriptionTimer, timerQueue, isTranscribing,
                          lastTranscriptionTime, inflight, inferences, sent, closed,
                          command, ffInput, triggerCount, discarded >>
      ]_vars

\* such a frame was handled while PCM was buffered, the silence timer was
\* pending and an inference was in flight
C37_Witness ==
    /\ lastEvent = "ignored"
    /\ pcmBuffer # << >>
    /\ transcriptionTimer \in timerQueue
    /\ isTranscribing
    /\ ~closed

\* C38: the transcription or error message for a snapshot is sent before the
\* next snapshot of the connection is taken: a message is sent only for the
\* latest snapshot, and a snapshot is taken only when no earlier one still
\* awaits its inference.
C38_MessageSentBeforeNextSnapshot ==
    [][ /\ sent' # sent =>
              /\ Len(inflight) = 1
              /\ inflight[1] = inferences[Len(inferences)]
              /\ inflight' = << >>
              /\ inferences' = inferences
              /\ Len(sent') = Len(sent) + 1
        /\ inferences' # inferences =>
              /\ inflight = << >>
              /\ sent' = sent
      ]_vars

\* two snapshots were taken; the first inference failed, the second
\* succeeded, and the error and the transcript were sent in that order
C38_Witness ==
    /\ Len(inferences) = 2
    /\ inflight = << >>
    /\ Len(sent) = 2
    /\ sent[1].type = "error"
    /\ sent[2].type = "transcription"

\* C39: isSocketOpen is true whenever the current socket is open and has not
\* fired its close event, and false whenever the session has no open socket.
C39_FlagTracksCurrentSocket ==
    /\ SocketIsOpen(sockState) => isSocketOpen
    /\ ~SocketIsOpen(sockState) => ~isSocketOpen

====
